---- MODULE Spec2Model ----
(***************************************************************************)
(* CareConnect alert escalation and notification routing:                  *)
(* TriageAgent.assess_symptoms (the facade) and the NurseNotifierAgent     *)
(* (provider directory, recipient resolution, channel dispatch, alert      *)
(* history).  Every operation of the agents is one action; the helpers the *)
(* operations call are operators computed the way the Python code computes *)
(* them.                                                                   *)
(***************************************************************************)
EXTENDS Integers, Sequences, FiniteSets, TLC

(***************************************************************************)
(* Bounds of the model.                                                    *)
(***************************************************************************)
\* alerts the history may hold; an operation that would append one more is
\* not taken
MaxAlerts == 1
\* last value of the wall clock (datetime.now())
MaxClock == 1
\* alerts the history may hold in the specification of the alert store
MaxStored == 2
\* alerts the history may hold in the specification of repeated escalation
MaxEscalated == 3
\* largest explicit limit of a get_alert_history request
MaxLimit == 2
\* alerts in the history while calls run concurrently
MaxRaced == 3
\* patient messages are up to MaxOver characters longer than the cap
MaxOver == 2

(***************************************************************************)
(* Values.                                                                 *)
(***************************************************************************)
\* a dictionary key that is absent from a request / assessment / context
Missing == "<missing>"

\* risk levels an assessment may carry; "SEVERE" stands for any value the
\* code does not recognise, Missing for an assessment without the key
RiskLevels == {"CRITICAL", "MODERATE", "LOW", "SEVERE"}
RiskValues == RiskLevels \cup {Missing}

\* priorities a send_alert request may carry; "LOWEST" stands for any value
\* the code does not recognise, Missing for a request without the key
Priorities == {"URGENT", "HIGH", "NORMAL"}
PriorityValues == Priorities \cup {"LOWEST", Missing}

Channels == {"dashboard", "sms", "pager", "email"}

ProviderIds == {"nurse_david", "dr_smith"}
\* list(self.healthcare_providers.keys()): insertion order of the dict
ProviderKeys == <<"nurse_david", "dr_smith">>

\* characters of patient messages
MsgFever == <<"f", "e", "v", "e", "r">>
Messages == {MsgFever}
EscalatedPrefix ==
    <<"E", "S", "C", "A", "L", "A", "T", "E", "D", ":", " ">>

\* patient_context: None, or a dict with or without the key "name"
ContextNone == [is_none |-> TRUE, name |-> Missing]
ContextEmpty == [is_none |-> FALSE, name |-> Missing]
ContextElena == [is_none |-> FALSE, name |-> "Elena"]
PatientContexts == {ContextNone, ContextEmpty, ContextElena}

\* a triage assessment: the keys the pipeline reads
Assessments ==
    [risk_level : RiskValues, escalate : BOOLEAN,
     symptoms_identified : {<<>>}]

\* a delivery failure pattern: the channels whose sender fails
FailurePatterns == SUBSET Channels
\* the patterns tried on whole requests: nothing fails, everything fails
RequestFailurePatterns == {{}, Channels}

(***************************************************************************)
(* alert_config (nurse_notifier_agent.py:25-31) and the message cap.       *)
(***************************************************************************)
urgent_response_time_minutes == 15
high_response_time_minutes == 60
normal_response_time_minutes == 240
\* patient_message[:150]
MessageCap == 150
\* request.get("limit", 50)
DefaultLimit == 50

VARIABLES
    healthcare_providers,   \* NurseNotifierAgent.healthcare_providers
    alert_history,          \* NurseNotifierAgent.alert_history (a list)
    now,                    \* the wall clock read by datetime.now()
    last                    \* the last operation: its inputs, what it
                            \* returned and the state it started from

vars == <<healthcare_providers, alert_history, now, last>>

(***************************************************************************)
(* TriageAgent helpers.                                                    *)
(***************************************************************************)
\* variant: an unrecognised risk level falls back to NORMAL
MapRiskToPriority_DefaultNormal(risk_level) ==
    CASE risk_level = "CRITICAL" -> "URGENT"
      [] risk_level = "MODERATE" -> "HIGH"
      [] OTHER -> "NORMAL"

\* mapping.get(risk_level, "HIGH")
MapRiskToPriority(risk_level) ==
    CASE risk_level = "CRITICAL" -> "URGENT"
      [] risk_level = "MODERATE" -> "HIGH"
      [] risk_level = "LOW" -> "NORMAL"
      [] OTHER -> "HIGH"

(***************************************************************************)
(* NurseNotifierAgent helpers.                                             *)
(***************************************************************************)
InitialProviders ==
    [p \in ProviderIds |->
        IF p = "nurse_david"
        THEN [name |-> "David Johnson", role |-> "Registered Nurse",
              on_call |-> TRUE]
        ELSE [name |-> "Dr. Sarah Smith", role |-> "Orthopedic Surgeon",
              on_call |-> FALSE]]

Min(a, b) == IF a < b THEN a ELSE b

\* variant: a message of exactly MessageCap characters gets the marker too
FormatAlertMessage_MarkerAtCap(patient_name, patient_message, risk_level) ==
    [urgency_indicator |->
        CASE risk_level = "CRITICAL" -> "URGENT"
          [] risk_level = "MODERATE" -> "HIGH PRIORITY"
          [] risk_level = "LOW" -> "ROUTINE"
          [] OTHER -> "ATTENTION",
     patient_name |-> patient_name,
     patient_report |->
        SubSeq(patient_message, 1, Min(Len(patient_message), MessageCap))
        \o (IF Len(patient_message) >= MessageCap
            THEN <<".", ".", ".">> ELSE <<>>),
     risk_level |-> risk_level,
     immediate_action |->
        IF risk_level = "CRITICAL" THEN "Contact patient immediately"
        ELSE "Review and respond within expected timeframe"]

\* the parts of the rendered text that depend on the inputs
FormatAlertMessage(patient_name, patient_message, risk_level) ==
    [urgency_indicator |->
        CASE risk_level = "CRITICAL" -> "URGENT"
          [] risk_level = "MODERATE" -> "HIGH PRIORITY"
          [] risk_level = "LOW" -> "ROUTINE"
          [] OTHER -> "ATTENTION",
     patient_name |-> patient_name,
     patient_report |->
        SubSeq(patient_message, 1, Min(Len(patient_message), MessageCap))
        \o (IF Len(patient_message) > MessageCap
            THEN <<".", ".", ".">> ELSE <<>>),
     risk_level |-> risk_level,
     immediate_action |->
        IF risk_level = "CRITICAL" THEN "Contact patient immediately"
        ELSE "Review and respond within expected timeframe"]

\* _create_alert: reads len(self.alert_history) and the clock, mutates nothing
CreateAlert(history, clock, patient_message, triage_assessment, patient_context, priority, timestamp) ==
    LET patient_name ==
            IF patient_context.name = Missing THEN "Unknown Patient"
            ELSE patient_context.name
        risk_level ==
            IF triage_assessment.risk_level = Missing THEN "MODERATE"
            ELSE triage_assessment.risk_level
    IN  [alert_id |-> <<Len(history) + 1, clock>>,
         timestamp |-> timestamp,
         priority |-> priority,
         risk_level |-> risk_level,
         patient_info |-> [name |-> patient_name,
                           original_message |-> patient_message],
         triage_assessment |-> triage_assessment,
         alert_message |->
            FormatAlertMessage(patient_name, patient_message, risk_level),
         status |-> "sent",
         response_required |-> TRUE,
         escalation_level |-> 0]

\* variant: the availability filter keeps every candidate
FilterOnCall_KeepAll(providers, recipients) == recipients

\* the availability filter loop of _determine_notification_recipients
RECURSIVE FilterOnCall(_, _)
FilterOnCall(providers, recipients) ==
    IF recipients = <<>> THEN <<>>
    ELSE LET recipient_id == Head(recipients)
             rest == FilterOnCall(providers, Tail(recipients))
         IN  IF recipient_id \in DOMAIN providers
                /\ providers[recipient_id].on_call
             THEN <<recipient_id>> \o rest
             ELSE rest

\* variant: the primary nurse is not put on the candidate list
CandidateRecipients_NoPrimary(alert) ==
    IF alert.risk_level = "CRITICAL" \/ alert.priority = "URGENT"
    THEN <<"dr_smith">> ELSE <<>>

\* the candidate list before the availability filter
CandidateRecipients(alert) ==
    <<"nurse_david">>
    \o (IF alert.risk_level = "CRITICAL" \/ alert.priority = "URGENT"
        THEN <<"dr_smith">> ELSE <<>>)

\* variant: no fallback when nobody on the candidate list is on-call
DetermineNotificationRecipients_NoFallback(providers, alert) ==
    FilterOnCall(providers, CandidateRecipients(alert))

\* variant: the fallback reaches the primary nurse only
DetermineNotificationRecipients_FallbackPrimary(providers, alert) ==
    LET available_recipients ==
            FilterOnCall(providers, CandidateRecipients(alert))
    IN  IF available_recipients = <<>> THEN <<"nurse_david">>
        ELSE available_recipients

DetermineNotificationRecipients(providers, alert) ==
    LET available_recipients ==
            FilterOnCall(providers, CandidateRecipients(alert))
    IN  IF available_recipients = <<>> THEN ProviderKeys
        ELSE available_recipients

\* a channel sender: its whole body is inside try/except, so a delivery
\* failure is the return value False and never an exception
SendChannel(channel, failing) == channel \notin failing

\* variant: SMS is sent for URGENT only, like the pager
SendNotificationToProvider_SmsUrgentOnly(alert, provider, failing) ==
    LET priority == alert.priority
        Ret(channel) ==
            [channel |-> channel, ok |-> SendChannel(channel, failing)]
        channels ==
            <<"dashboard">>
            \o (IF priority = "URGENT" THEN <<"sms", "pager">> ELSE <<>>)
            \o <<"email">>
    IN  [provider_name |-> provider.name,
         provider_role |-> provider.role,
         channels_used |-> channels,
         status |-> "success",
         sender_returns |-> [i \in 1..Len(channels) |-> Ret(channels[i])]]

\* _send_notification_to_provider.  sender_returns lists, in call order, the
\* channel senders that were awaited and what each returned (the locals
\* dashboard_result, sms_result, pager_result, email_result).
SendNotificationToProvider(alert, provider, failing) ==
    LET priority == alert.priority
        r0 == [channels_used |-> <<>>, sender_returns |-> <<>>]
        Send(r, channel) ==
            [channels_used |-> Append(r.channels_used, channel),
             sender_returns |->
                Append(r.sender_returns,
                       [channel |-> channel,
                        ok |-> SendChannel(channel, failing)])]
        r1 == Send(r0, "dashboard")
        r2 == IF priority \in {"URGENT", "HIGH"} THEN Send(r1, "sms") ELSE r1
        r3 == IF priority \in {"URGENT", "HIGH"} /\ priority = "URGENT"
              THEN Send(r2, "pager") ELSE r2
        r4 == Send(r3, "email")
    IN  [provider_name |-> provider.name,
         provider_role |-> provider.role,
         channels_used |-> r4.channels_used,
         status |-> "success",
         sender_returns |-> r4.sender_returns]

\* the for loop of send_alert over providers_to_notify
RECURSIVE NotifyAll(_, _, _, _)
NotifyAll(providers, alert, recipients, failing) ==
    IF recipients = <<>> THEN <<>>
    ELSE LET provider_id == Head(recipients)
             rest == NotifyAll(providers, alert, Tail(recipients), failing)
         IN  IF provider_id \in DOMAIN providers
             THEN <<SendNotificationToProvider(
                        alert, providers[provider_id], failing)>> \o rest
             ELSE rest

\* variant: every priority gets the response time of HIGH
GetExpectedResponseTime_AlwaysHigh(priority) == high_response_time_minutes

\* .get(priority, high_response_time_minutes)
GetExpectedResponseTime(priority) ==
    CASE priority = "URGENT" -> urgent_response_time_minutes
      [] priority = "HIGH" -> high_response_time_minutes
      [] priority = "NORMAL" -> normal_response_time_minutes
      [] OTHER -> high_response_time_minutes

(***************************************************************************)
(* send_alert.                                                             *)
(***************************************************************************)
NoAlertId == <<0, 0>>

NoAssessment ==
    [risk_level |-> Missing, escalate |-> FALSE, symptoms_identified |-> <<>>]

\* the alert slot of a record when no alert was built
NoAlert ==
    [CreateAlert(<<>>, 0, <<>>, NoAssessment, ContextEmpty, Missing, 0)
        EXCEPT !.alert_id = NoAlertId]

ErrorSummary ==
    [status |-> "error", alert_id |-> NoAlertId, priority |-> Missing,
     providers_notified |-> 0, notification_results |-> <<>>,
     expected_response_time_minutes |-> 0, timestamp |-> 0,
     providers_to_notify |-> <<>>]

\* no send_alert call was made
NoSummary == [ErrorSummary EXCEPT !.status = "not_called"]

\* a NotificationResult none of whose channel senders succeeded
TotalFailure(result) ==
    \A i \in 1..Len(result.sender_returns) : ~result.sender_returns[i].ok

\* variant: when no channel of any provider succeeded the call fails
AlertSummary_ErrorOnTotalFailure(alert, providers_to_notify, notification_results) ==
    IF \A i \in 1..Len(notification_results) :
            TotalFailure(notification_results[i])
    THEN ErrorSummary
    ELSE [status |-> "alert_sent",
          alert_id |-> alert.alert_id,
          priority |-> alert.priority,
          providers_notified |-> Len(notification_results),
          notification_results |-> notification_results,
          expected_response_time_minutes |->
             GetExpectedResponseTime(alert.priority),
          timestamp |-> alert.timestamp,
          providers_to_notify |-> providers_to_notify]

\* variant: providers_notified counts the providers that a channel reached
AlertSummary_CountsDelivered(alert, providers_to_notify, notification_results) ==
    [status |-> "alert_sent",
     alert_id |-> alert.alert_id,
     priority |-> alert.priority,
     providers_notified |->
        Cardinality({i \in 1..Len(notification_results) :
                        ~TotalFailure(notification_results[i])}),
     notification_results |-> notification_results,
     expected_response_time_minutes |->
        GetExpectedResponseTime(alert.priority),
     timestamp |-> alert.timestamp,
     providers_to_notify |-> providers_to_notify]

\* the dict send_alert returns (lines 156-164); alert carries the priority
\* and timestamp of the request
AlertSummary(alert, providers_to_notify, notification_results) ==
    [status |-> "alert_sent",
     alert_id |-> alert.alert_id,
     priority |-> alert.priority,
     providers_notified |-> Len(notification_results),
     notification_results |-> notification_results,
     expected_response_time_minutes |->
        GetExpectedResponseTime(alert.priority),
     timestamp |-> alert.timestamp,
     providers_to_notify |-> providers_to_notify]

\* what send_alert does to alert_history and what it returns.
\* providers_to_notify is the local of the same name.
SendAlertOutcome(providers, history, clock, request, failing) ==
    LET patient_context == request.patient_context
        priority ==
            IF request.priority = Missing THEN "HIGH" ELSE request.priority
        timestamp ==
            IF request.has_timestamp THEN request.timestamp ELSE clock
    IN  IF patient_context.is_none
        THEN \* patient_context.get(...) on None raises; caught at line 166
             [history |-> history, alert |-> NoAlert,
              summary |-> ErrorSummary]
        ELSE
        LET alert == CreateAlert(history, clock, request.patient_message,
                                 request.triage_assessment, patient_context,
                                 priority, timestamp)
            providers_to_notify ==
                DetermineNotificationRecipients(providers, alert)
            notification_results ==
                NotifyAll(providers, alert, providers_to_notify, failing)
        IN  [history |-> Append(history, alert),
             alert |-> alert,
             summary |-> AlertSummary(alert, providers_to_notify,
                                      notification_results)]

(***************************************************************************)
(* The record of the last operation.                                       *)
(***************************************************************************)
NoRequest ==
    [patient_message |-> <<>>, triage_assessment |-> NoAssessment,
     patient_context |-> ContextEmpty, priority |-> Missing,
     has_timestamp |-> FALSE, timestamp |-> 0]

NoChain == [twice |-> FALSE, level_before |-> 0]

\* the coroutines that may be under way at the same time, and the locals
\* of one of them
Calls == {"call_a", "call_b"}
NoCall ==
    [pc |-> "idle", kind |-> "none", request |-> NoRequest,
     alert |-> NoAlert, providers_to_notify |-> <<>>,
     notification_results |-> <<>>, alert_id |-> NoAlertId,
     new_priority |-> Missing, level_before |-> 0, overlaps |-> {},
     racing |-> 0,
     summary |-> NoSummary, status |-> "none"]

LastInit ==
    [op |-> "init",
     llm |-> "none",
     request |-> NoRequest,
     alert |-> NoAlert,
     provider_id |-> Missing,
     on_call |-> FALSE,
     alert_id |-> NoAlertId,
     new_priority |-> Missing,
     old_priority |-> Missing,
     escalation_level |-> 0,
     chain |-> NoChain,
     patient_name |-> Missing,
     limit |-> 0,
     alerts |-> <<>>,
     total_alerts |-> 0,
     cursor |-> 0,
     calls |-> [c \in Calls |-> NoCall],
     assessment |-> NoAssessment,
     summary |-> NoSummary,
     failing |-> {},
     status |-> "none",
     pre_alert_history |-> <<>>,
     pre_healthcare_providers |-> InitialProviders]

Init ==
    /\ healthcare_providers = InitialProviders
    /\ alert_history = <<>>
    /\ now = 0
    /\ last = LastInit

\* datetime.now() moves on between operations
Tick ==
    /\ now < MaxClock
    /\ now' = now + 1
    /\ UNCHANGED <<healthcare_providers, alert_history, last>>

\* NurseNotifierAgent.send_alert called directly (A2A handler / invoke):
\* the request of test_individual_agents
TestRequest ==
    [patient_message |-> MsgFever,
     triage_assessment |->
        [risk_level |-> "CRITICAL", escalate |-> TRUE,
         symptoms_identified |-> <<>>],
     patient_context |-> ContextElena,
     priority |-> "URGENT",
     has_timestamp |-> FALSE,
     timestamp |-> 0]
SendAlertRequests == {TestRequest}

\* send_alert on a history that may grow up to bound alerts
SendAlertWithin(bound, request, failing) ==
    LET out == SendAlertOutcome(healthcare_providers, alert_history, now,
                                request, failing)
    IN  /\ Len(out.history) <= bound
        /\ alert_history' = out.history
        /\ last' = [LastInit EXCEPT
                        !.op = "send_alert",
                        !.request = request,
                        !.alert = out.alert,
                        !.summary = out.summary,
                        !.failing = failing,
                        !.status = out.summary.status,
                        !.pre_alert_history = alert_history,
                        !.pre_healthcare_providers = healthcare_providers]
        /\ UNCHANGED <<healthcare_providers, now>>

SendAlert(request, failing) == SendAlertWithin(MaxAlerts, request, failing)

(***************************************************************************)
(* TriageAgent.assess_symptoms: the facade.                                *)
(***************************************************************************)
\* what generate_response gives: it raises, it returns text that is not
\* JSON, or it returns the JSON of an assessment
LLMResponses ==
    {[kind |-> "raise", assessment |-> NoAssessment],
     [kind |-> "bad_json", assessment |-> NoAssessment]}
    \cup [kind : {"json"}, assessment : Assessments]

ParsingFallback ==
    [risk_level |-> "MODERATE", escalate |-> TRUE,
     symptoms_identified |-> <<"parsing_error">>]

SystemErrorFallback ==
    [risk_level |-> "CRITICAL", escalate |-> TRUE,
     symptoms_identified |-> <<"system_error">>]

\* variant: the notifier is called whatever the escalate flag says
NeedsNotification_Always(assessment) == TRUE

\* if assessment.get("escalate", False)
NeedsNotification(assessment) == assessment.escalate

\* _trigger_nurse_notification builds this request; assessment["risk_level"]
\* raises KeyError when the key is missing and no call is made
NotificationData(patient_message, assessment, patient_context, clock) ==
    [patient_message |-> patient_message,
     triage_assessment |-> assessment,
     patient_context |-> patient_context,
     priority |-> MapRiskToPriority(assessment.risk_level),
     has_timestamp |-> TRUE,
     timestamp |-> clock]

\* a2a_client.call_agent hands the request to NurseNotifierAgent.send_alert
\* and the facade only logs what comes back; the exceptions of
\* _trigger_nurse_notification are caught inside it (line 171), the KeyError
\* of line 136 by the outer handler (line 139)
AssessSymptoms(patient_message, patient_context, llm, failing) ==
    LET assessment ==
            IF llm.kind = "bad_json" THEN ParsingFallback ELSE llm.assessment
        calls ==
            /\ llm.kind # "raise"
            /\ NeedsNotification(assessment)
            /\ assessment.risk_level # Missing
        request == NotificationData(patient_message, assessment,
                                    patient_context, now)
        out == IF calls
               THEN SendAlertOutcome(healthcare_providers, alert_history,
                                     now, request, failing)
               ELSE [history |-> alert_history, alert |-> NoAlert,
                     summary |-> NoSummary]
        returned ==
            IF llm.kind = "raise" \/ assessment.risk_level = Missing
            THEN SystemErrorFallback
            ELSE assessment
    IN  /\ Len(out.history) <= MaxAlerts
        /\ ~calls => failing = {}
        /\ alert_history' = out.history
        /\ last' = [LastInit EXCEPT
                        !.op = "assess_symptoms",
                        !.llm = llm.kind,
                        !.request =
                            IF calls THEN request
                            ELSE [NoRequest EXCEPT
                                    !.patient_message = patient_message,
                                    !.triage_assessment = assessment,
                                    !.patient_context = patient_context],
                        !.assessment = returned,
                        !.alert = out.alert,
                        !.summary = out.summary,
                        !.failing = failing,
                        !.status = "returned",
                        !.pre_alert_history = alert_history,
                        !.pre_healthcare_providers = healthcare_providers]
        /\ UNCHANGED <<healthcare_providers, now>>

(***************************************************************************)
(* update_provider_status.                                                 *)
(***************************************************************************)
\* variant: the flag is written to every provider of the directory
UpdatedProviders_AllProviders(providers, provider_id, on_call) ==
    IF provider_id \in DOMAIN providers
    THEN [p \in DOMAIN providers |-> [providers[p] EXCEPT !.on_call = on_call]]
    ELSE providers

\* self.healthcare_providers[provider_id]["on_call"] = on_call, when the id
\* is in the directory
UpdatedProviders(providers, provider_id, on_call) ==
    IF provider_id \in DOMAIN providers
    THEN [providers EXCEPT ![provider_id].on_call = on_call]
    ELSE providers

UpdateProviderStatus(provider_id, on_call) ==
    /\ healthcare_providers' =
            UpdatedProviders(healthcare_providers, provider_id, on_call)
    /\ last' = [LastInit EXCEPT
                    !.op = "update_provider_status",
                    !.provider_id = provider_id,
                    !.on_call = on_call,
                    !.status =
                        IF provider_id \in DOMAIN healthcare_providers
                        THEN "updated" ELSE "not_found",
                    !.pre_alert_history = alert_history,
                    !.pre_healthcare_providers = healthcare_providers]
    /\ UNCHANGED <<alert_history, now>>

\* provider ids a caller may name: the directory's and an unknown one
ProviderIdInputs == ProviderIds \cup {"nurse_unknown"}

Next ==
    \/ Tick
    \/ \E request \in SendAlertRequests, failing \in RequestFailurePatterns :
            SendAlert(request, failing)
    \/ \E patient_message \in Messages, patient_context \in PatientContexts,
          llm \in LLMResponses, failing \in RequestFailurePatterns :
            AssessSymptoms(patient_message, patient_context, llm, failing)
    \/ \E provider_id \in ProviderIdInputs, on_call \in BOOLEAN :
            UpdateProviderStatus(provider_id, on_call)

Spec == Init /\ [][Next]_vars

(***************************************************************************)
(* Recipient resolution on its own: the directory changes through          *)
(* update_provider_status and _determine_notification_recipients is        *)
(* applied to alerts of every risk level and priority.                     *)
(***************************************************************************)
ResolveAlerts ==
    {CreateAlert(<<>>, 0, MsgFever,
                 [risk_level |-> r, escalate |-> TRUE,
                  symptoms_identified |-> <<>>],
                 c, p, 0) :
        r \in RiskValues, p \in PriorityValues \ {Missing},
        c \in {ContextEmpty, ContextElena}}

DetermineRecipients(alert) ==
    /\ last' = [LastInit EXCEPT
                    !.op = "determine_notification_recipients",
                    !.alert = alert,
                    !.summary =
                        [NoSummary EXCEPT
                            !.providers_to_notify =
                                DetermineNotificationRecipients(
                                    healthcare_providers, alert)],
                    !.status = "returned",
                    !.pre_alert_history = alert_history,
                    !.pre_healthcare_providers = healthcare_providers]
    /\ UNCHANGED <<healthcare_providers, alert_history, now>>

NextResolve ==
    \/ \E provider_id \in ProviderIdInputs, on_call \in BOOLEAN :
            UpdateProviderStatus(provider_id, on_call)
    \/ \E alert \in ResolveAlerts : DetermineRecipients(alert)

SpecResolve == Init /\ [][NextResolve]_vars

(***************************************************************************)
(* Channel dispatch on its own: _send_notification_to_provider applied to  *)
(* every alert priority, provider and delivery failure pattern.            *)
(***************************************************************************)
Dispatch(alert, provider_id, failing) ==
    /\ last' = [LastInit EXCEPT
                    !.op = "send_notification_to_provider",
                    !.alert = alert,
                    !.provider_id = provider_id,
                    !.failing = failing,
                    !.summary =
                        [NoSummary EXCEPT
                            !.notification_results =
                                <<SendNotificationToProvider(
                                    alert, healthcare_providers[provider_id],
                                    failing)>>],
                    !.status = "returned",
                    !.pre_alert_history = alert_history,
                    !.pre_healthcare_providers = healthcare_providers]
    /\ UNCHANGED <<healthcare_providers, alert_history, now>>

\* one alert of each priority
DispatchAlerts ==
    {alert \in ResolveAlerts :
        /\ alert.triage_assessment.risk_level = "CRITICAL"
        /\ alert.patient_info.name = "Elena"}

NextDispatch ==
    \E alert \in DispatchAlerts, provider_id \in ProviderIds,
       failing \in FailurePatterns :
        Dispatch(alert, provider_id, failing)

SpecDispatch == Init /\ [][NextDispatch]_vars

(***************************************************************************)
(* escalate_alert.                                                         *)
(***************************************************************************)
\* variant: an id that is not found falls on the first alert of the history
FindAlert_DefaultFirst(history, alert_id) ==
    IF \E i \in 1..Len(history) : history[i].alert_id = alert_id
    THEN CHOOSE i \in 1..Len(history) :
            /\ history[i].alert_id = alert_id
            /\ \A j \in 1..(i - 1) : history[j].alert_id # alert_id
    ELSE IF history = <<>> THEN 0 ELSE 1

\* for alert in self.alert_history: if alert["alert_id"] == alert_id:
\* the position of the first match, 0 when the loop ends without one
FindAlert(history, alert_id) ==
    IF \E i \in 1..Len(history) : history[i].alert_id = alert_id
    THEN CHOOSE i \in 1..Len(history) :
            /\ history[i].alert_id = alert_id
            /\ \A j \in 1..(i - 1) : history[j].alert_id # alert_id
    ELSE 0

\* variant: the re-notification goes out at the alert's previous priority
EscalationRequest_OldPriority(alert, new_priority, clock) ==
    [patient_message |-> EscalatedPrefix \o alert.patient_info.original_message,
     triage_assessment |-> alert.triage_assessment,
     patient_context |-> [is_none |-> FALSE, name |-> alert.patient_info.name],
     priority |-> alert.priority,
     has_timestamp |-> TRUE,
     timestamp |-> clock]

\* variant: the re-notification repeats the original message as it was
EscalationRequest_NoPrefix(alert, new_priority, clock) ==
    [patient_message |-> alert.patient_info.original_message,
     triage_assessment |-> alert.triage_assessment,
     patient_context |-> [is_none |-> FALSE, name |-> alert.patient_info.name],
     priority |-> new_priority,
     has_timestamp |-> TRUE,
     timestamp |-> clock]

\* the request escalate_alert hands to send_alert (lines 556-562); alert is
\* the stored alert, whose patient_info dict serves as patient_context
EscalationRequest(alert, new_priority, clock) ==
    [patient_message |-> EscalatedPrefix \o alert.patient_info.original_message,
     triage_assessment |-> alert.triage_assessment,
     patient_context |-> [is_none |-> FALSE, name |-> alert.patient_info.name],
     priority |-> new_priority,
     has_timestamp |-> TRUE,
     timestamp |-> clock]

\* variant: the level is set to 1 instead of being incremented
EscalatedInPlace_LevelOne(history, i, new_priority) ==
    [history EXCEPT ![i].priority = new_priority,
                    ![i].escalation_level = 1]

\* variant: every stored alert is escalated, not only the one found
EscalatedInPlace_AllAlerts(history, i, new_priority) ==
    [j \in 1..Len(history) |->
        [history[j] EXCEPT !.priority = new_priority,
                           !.escalation_level = @ + 1]]

\* alert["priority"] = new_priority; alert["escalation_level"] += 1
EscalatedInPlace(history, i, new_priority) ==
    [history EXCEPT ![i].priority = new_priority,
                    ![i].escalation_level = @ + 1]

\* what escalate_alert does to alert_history and what it returns
EscalateOutcome(providers, history, clock, alert_id, new_priority_arg, failing) ==
    LET new_priority ==
            IF new_priority_arg = Missing THEN "URGENT" ELSE new_priority_arg
        i == FindAlert(history, alert_id)
    IN  IF i = 0
        THEN [status |-> "not_found", history |-> history,
              new_priority |-> new_priority, old_priority |-> Missing,
              escalation_level |-> 0, request |-> NoRequest,
              alert |-> NoAlert, escalation_result |-> NoSummary]
        ELSE
        LET updated == EscalatedInPlace(history, i, new_priority)
            request == EscalationRequest(history[i], new_priority, clock)
            out == SendAlertOutcome(providers, updated, clock, request,
                                    failing)
        IN  [status |-> "escalated", history |-> out.history,
             new_priority |-> new_priority,
             old_priority |-> history[i].priority,
             escalation_level |-> out.history[i].escalation_level,
             request |-> request,
             alert |-> out.alert,
             escalation_result |-> out.summary]

\* escalate_alert called twice in a row on the same id: the level the alert
\* had before the first of the two calls
ChainOf(alert_id) ==
    IF /\ last.op = "escalate_alert"
       /\ last.status = "escalated"
       /\ last.alert_id = alert_id
    THEN [twice |-> TRUE,
          level_before |->
            last.pre_alert_history[
                FindAlert(last.pre_alert_history, alert_id)].escalation_level]
    ELSE NoChain

\* escalate_alert on a history that may grow up to bound alerts
EscalateAlertWithin(bound, alert_id, new_priority_arg, failing) ==
    LET out == EscalateOutcome(healthcare_providers, alert_history, now,
                               alert_id, new_priority_arg, failing)
    IN  /\ Len(out.history) <= bound
        /\ out.status = "not_found" => failing = {}
        /\ alert_history' = out.history
        /\ last' = [LastInit EXCEPT
                        !.op = "escalate_alert",
                        !.alert_id = alert_id,
                        !.new_priority = out.new_priority,
                        !.old_priority = out.old_priority,
                        !.escalation_level = out.escalation_level,
                        !.chain =
                            IF out.status = "escalated"
                            THEN ChainOf(alert_id) ELSE NoChain,
                        !.request = out.request,
                        !.alert = out.alert,
                        !.summary = out.escalation_result,
                        !.failing = failing,
                        !.status = out.status,
                        !.pre_alert_history = alert_history,
                        !.pre_healthcare_providers = healthcare_providers]
        /\ UNCHANGED <<healthcare_providers, now>>

EscalateAlert(alert_id, new_priority_arg, failing) ==
    EscalateAlertWithin(MaxStored, alert_id, new_priority_arg, failing)

(***************************************************************************)
(* get_alert_history.                                                      *)
(***************************************************************************)
\* list.sort(key=timestamp, reverse=True): descending and stable, alerts
\* with equal timestamps keep the order they had
RECURSIVE InsertNewestFirst(_, _)
InsertNewestFirst(sorted, alert) ==
    IF sorted = <<>> THEN <<alert>>
    ELSE IF Head(sorted).timestamp >= alert.timestamp
         THEN <<Head(sorted)>> \o InsertNewestFirst(Tail(sorted), alert)
         ELSE <<alert>> \o sorted

\* variant: oldest first
RECURSIVE InsertOldestFirst(_, _)
InsertOldestFirst(sorted, alert) ==
    IF sorted = <<>> THEN <<alert>>
    ELSE IF Head(sorted).timestamp <= alert.timestamp
         THEN <<Head(sorted)>> \o InsertOldestFirst(Tail(sorted), alert)
         ELSE <<alert>> \o sorted

RECURSIVE SortOldestFirst(_)
SortOldestFirst(alerts) ==
    IF alerts = <<>> THEN <<>>
    ELSE InsertOldestFirst(
            SortOldestFirst(SubSeq(alerts, 1, Len(alerts) - 1)),
            alerts[Len(alerts)])

RECURSIVE SortNewestFirst(_)
SortNewestFirst(alerts) ==
    IF alerts = <<>> THEN <<>>
    ELSE InsertNewestFirst(
            SortNewestFirst(SubSeq(alerts, 1, Len(alerts) - 1)),
            alerts[Len(alerts)])

\* [alert for alert in self.alert_history if name == patient_name]
RECURSIVE FilterByName(_, _)
FilterByName(history, patient_name) ==
    IF history = <<>> THEN <<>>
    ELSE LET rest == FilterByName(Tail(history), patient_name)
         IN  IF Head(history).patient_info.name = patient_name
             THEN <<Head(history)>> \o rest
             ELSE rest

\* alerts[:limit] for a limit that is not negative
Take(alerts, limit) == SubSeq(alerts, 1, Min(limit, Len(alerts)))

\* variant: the stored list is replaced by the page that is returned
GetAlertHistoryOutcome_StoresPage(history, patient_name, limit) ==
    LET filtered_alerts ==
            SortNewestFirst(IF patient_name = Missing THEN history
                            ELSE FilterByName(history, patient_name))
    IN  [history |-> Take(filtered_alerts, limit),
         status |-> "success",
         alerts |-> Take(filtered_alerts, limit),
         total_alerts |-> Len(filtered_alerts),
         limit_applied |-> limit]

\* what get_alert_history returns and what it does to alert_history: with
\* no patient_name, filtered_alerts is self.alert_history itself and
\* filtered_alerts.sort(...) sorts the stored list
GetAlertHistoryOutcome(history, patient_name, limit) ==
    LET filtered_alerts ==
            SortNewestFirst(IF patient_name = Missing THEN history
                            ELSE FilterByName(history, patient_name))
    IN  [history |-> IF patient_name = Missing THEN filtered_alerts
                     ELSE history,
         status |-> "success",
         alerts |-> Take(filtered_alerts, limit),
         total_alerts |-> Len(filtered_alerts),
         limit_applied |-> limit]

\* limit = request.get("limit", 50): explicit limits, and the default of a
\* request without the key
LimitInputs == (0..MaxLimit) \cup {DefaultLimit}

\* patient_name of a request: absent, or a name
PatientNameInputs == {Missing, "Elena", "Unknown Patient"}

GetAlertHistory(patient_name, limit) ==
    LET out == GetAlertHistoryOutcome(alert_history, patient_name, limit)
    IN  /\ alert_history' = out.history
        /\ last' = [LastInit EXCEPT
                        !.op = "get_alert_history",
                        !.patient_name = patient_name,
                        !.limit = out.limit_applied,
                        !.alerts = out.alerts,
                        !.total_alerts = out.total_alerts,
                        !.status = out.status,
                        !.pre_alert_history = alert_history,
                        !.pre_healthcare_providers = healthcare_providers]
        /\ UNCHANGED <<healthcare_providers, now>>

(***************************************************************************)
(* check_provider_availability.                                            *)
(***************************************************************************)
CheckProviderAvailability ==
    /\ last' = [LastInit EXCEPT
                    !.op = "check_provider_availability",
                    !.summary =
                        [NoSummary EXCEPT
                            !.providers_to_notify =
                                FilterOnCall(healthcare_providers,
                                             ProviderKeys)],
                    !.status = "success",
                    !.pre_alert_history = alert_history,
                    !.pre_healthcare_providers = healthcare_providers]
    /\ UNCHANGED <<healthcare_providers, alert_history, now>>

(***************************************************************************)
(* The alert store: every operation of NurseNotifierAgent.invoke on a      *)
(* history of up to MaxStored alerts.                                      *)
(***************************************************************************)
\* a request that carries neither risk level, patient name nor priority
BareRequest ==
    [patient_message |-> MsgFever,
     triage_assessment |->
        [risk_level |-> Missing, escalate |-> TRUE,
         symptoms_identified |-> <<>>],
     patient_context |-> ContextEmpty,
     priority |-> Missing,
     has_timestamp |-> FALSE,
     timestamp |-> 0]
StoreRequests == {TestRequest, BareRequest}

\* alert ids a caller may name: those of the history and one that is in no
\* history
AlertIdInputs(history) ==
    {history[i].alert_id : i \in 1..Len(history)} \cup {NoAlertId}

\* new_priority of an escalate_alert request
NewPriorityInputs == {"URGENT", "NORMAL", Missing}

StoreSendAlert(request, failing) ==
    SendAlertWithin(MaxStored, request, failing)

NextStore ==
    \/ Tick
    \/ \E request \in StoreRequests : StoreSendAlert(request, {})
    \/ \E alert_id \in AlertIdInputs(alert_history),
          new_priority \in NewPriorityInputs :
            EscalateAlert(alert_id, new_priority, {})
    \/ \E patient_name \in PatientNameInputs, limit \in LimitInputs :
            GetAlertHistory(patient_name, limit)
    \/ \E provider_id \in ProviderIdInputs, on_call \in BOOLEAN :
            UpdateProviderStatus(provider_id, on_call)
    \/ CheckProviderAvailability

SpecStore == Init /\ [][NextStore]_vars

(***************************************************************************)
(* Repeated escalation: alerts are sent and escalated again and again, on  *)
(* a history of up to MaxEscalated alerts that queries may reorder.        *)
(***************************************************************************)
RepeatSendAlert(request) == SendAlertWithin(MaxEscalated, request, {})

RepeatEscalateAlert(alert_id, new_priority_arg) ==
    EscalateAlertWithin(MaxEscalated, alert_id, new_priority_arg, {})

NextEscalate ==
    \/ Tick
    \/ \E request \in StoreRequests : RepeatSendAlert(request)
    \/ \E alert_id \in AlertIdInputs(alert_history),
          new_priority \in NewPriorityInputs :
            RepeatEscalateAlert(alert_id, new_priority)
    \/ GetAlertHistory(Missing, DefaultLimit)

SpecEscalate == Init /\ [][NextEscalate]_vars

(***************************************************************************)
(* send_alert step by step: the alert is built and its recipients          *)
(* resolved, the providers are notified one after the other, then the      *)
(* alert is stored and the summary returned.  last.status = "dispatching"  *)
(* while the call is under way; last.cursor counts the providers done.     *)
(***************************************************************************)
Dispatching == last.op = "send_alert" /\ last.status = "dispatching"

\* lines 126-140
StepCreate(request) ==
    LET patient_context == request.patient_context
        priority ==
            IF request.priority = Missing THEN "HIGH" ELSE request.priority
        timestamp ==
            IF request.has_timestamp THEN request.timestamp ELSE now
        alert == CreateAlert(alert_history, now, request.patient_message,
                             request.triage_assessment, patient_context,
                             priority, timestamp)
    IN  /\ ~Dispatching
        /\ Len(alert_history) < MaxAlerts
        /\ last' =
              IF patient_context.is_none
              THEN [LastInit EXCEPT
                        !.op = "send_alert",
                        !.request = request,
                        !.summary = ErrorSummary,
                        !.status = "error",
                        !.pre_alert_history = alert_history,
                        !.pre_healthcare_providers = healthcare_providers]
              ELSE [LastInit EXCEPT
                        !.op = "send_alert",
                        !.request = request,
                        !.alert = alert,
                        !.summary =
                            [NoSummary EXCEPT
                                !.providers_to_notify =
                                    DetermineNotificationRecipients(
                                        healthcare_providers, alert)],
                        !.status = "dispatching",
                        !.pre_alert_history = alert_history,
                        !.pre_healthcare_providers = healthcare_providers]
        /\ UNCHANGED <<healthcare_providers, alert_history, now>>

\* one round of the loop of lines 144-148
StepNotify(failing) ==
    LET provider_id == last.summary.providers_to_notify[last.cursor + 1]
    IN  /\ Dispatching
        /\ last.cursor < Len(last.summary.providers_to_notify)
        /\ last' =
              [last EXCEPT
                 !.cursor = @ + 1,
                 !.summary.notification_results =
                    IF provider_id \in DOMAIN healthcare_providers
                    THEN Append(@, SendNotificationToProvider(
                                     last.alert,
                                     healthcare_providers[provider_id],
                                     failing))
                    ELSE @]
        /\ UNCHANGED <<healthcare_providers, alert_history, now>>

\* lines 150-164
StepStore ==
    /\ Dispatching
    /\ last.cursor = Len(last.summary.providers_to_notify)
    /\ alert_history' = Append(alert_history, last.alert)
    /\ last' = [last EXCEPT
                    !.summary = AlertSummary(last.alert,
                                             @.providers_to_notify,
                                             @.notification_results),
                    !.status = "alert_sent"]
    /\ UNCHANGED <<healthcare_providers, now>>

\* the directory changes between calls
StepUpdateProviderStatus(provider_id, on_call) ==
    /\ ~Dispatching
    /\ UpdateProviderStatus(provider_id, on_call)

\* requests of the stepwise calls: the two of the store and one whose
\* patient_context is None
NoneContextRequest == [TestRequest EXCEPT !.patient_context = ContextNone]
StepRequests == StoreRequests \cup {NoneContextRequest}

NextSteps ==
    \/ Tick
    \/ \E request \in StepRequests : StepCreate(request)
    \/ \E failing \in FailurePatterns : StepNotify(failing)
    \/ StepStore
    \/ \E provider_id \in ProviderIds, on_call \in BOOLEAN :
            StepUpdateProviderStatus(provider_id, on_call)

SpecSteps == Init /\ [][NextSteps]_vars

\* the stepwise call ends where the call taken as a whole ends
StepsAgree ==
    (last.op = "send_alert" /\ last.status = "alert_sent")
        => LET out == SendAlertOutcome(
                        last.pre_healthcare_providers, last.pre_alert_history,
                        last.alert.alert_id[2], last.request, {})
           IN  /\ out.alert = last.alert
               /\ out.summary.providers_to_notify
                    = last.summary.providers_to_notify
               /\ out.summary.priority = last.summary.priority

(***************************************************************************)
(* Concurrent calls: send_alert and escalate_alert coroutines of one       *)
(* agent on one event loop.  A coroutine runs without interruption until   *)
(* it awaits a channel sender (the await of line 147, which stands for the *)
(* I/O of lines 286-301); there another coroutine may run.  Everything     *)
(* from the entry of send_alert to the first such await (lines 126-140),   *)
(* and in escalate_alert lines 545-556 before it, is one step; so is the   *)
(* tail of send_alert after the loop (lines 150-164).  last.calls holds    *)
(* the locals of each coroutine.                                           *)
(***************************************************************************)
InFlight(calls) == {c \in Calls : calls[c].pc = "dispatching"}

\* call is an escalation that found its alert, and d is an escalation of
\* the same alert id that is under way
RacesWith(calls, d, call) ==
    /\ call.kind = "escalate_alert"
    /\ call.pc = "dispatching"
    /\ calls[d].kind = "escalate_alert"
    /\ calls[d].pc = "dispatching"
    /\ calls[d].alert_id = call.alert_id

\* bookkeeping at the start of a coroutine in the free slot c: it notes the
\* coroutines under way (overlaps), no other slot remembers the call that
\* was in slot c before, and an escalation under way counts the
\* escalations of its alert id that start meanwhile (racing)
Started(calls, c, call) ==
    [d \in Calls |->
        IF d = c THEN [call EXCEPT !.overlaps = InFlight(calls) \ {c}]
        ELSE [calls[d] EXCEPT
                !.overlaps = @ \ {c},
                !.racing = IF RacesWith(calls, d, call) THEN @ + 1 ELSE @]]

SlotFree(c) == last.calls[c].pc \in {"idle", "done"}

\* room for the alert this call will append and for those under way
RoomToAppend ==
    Len(alert_history) + Cardinality(InFlight(last.calls)) < MaxRaced

\* send_alert, lines 126-140
ConcurrentSendAlert(c, request) ==
    LET priority ==
            IF request.priority = Missing THEN "HIGH" ELSE request.priority
        timestamp ==
            IF request.has_timestamp THEN request.timestamp ELSE now
        alert == CreateAlert(alert_history, now, request.patient_message,
                             request.triage_assessment,
                             request.patient_context, priority, timestamp)
        call == [NoCall EXCEPT
                    !.pc = "dispatching",
                    !.kind = "send_alert",
                    !.request = request,
                    !.alert = alert,
                    !.providers_to_notify =
                        DetermineNotificationRecipients(
                            healthcare_providers, alert)]
    IN  /\ SlotFree(c)
        /\ RoomToAppend
        /\ ~request.patient_context.is_none
        /\ last' = [last EXCEPT !.op = "concurrent_calls",
                                !.calls = Started(@, c, call)]
        /\ UNCHANGED <<healthcare_providers, alert_history, now>>

\* escalate_alert, lines 545-556, and on into send_alert, lines 126-140
ConcurrentEscalateAlert(c, alert_id, new_priority_arg) ==
    LET new_priority ==
            IF new_priority_arg = Missing THEN "URGENT" ELSE new_priority_arg
        i == FindAlert(alert_history, alert_id)
        updated == EscalatedInPlace(alert_history, i, new_priority)
        request == EscalationRequest(alert_history[i], new_priority, now)
        alert == CreateAlert(updated, now, request.patient_message,
                             request.triage_assessment,
                             request.patient_context, new_priority, now)
        call == [NoCall EXCEPT
                    !.pc = "dispatching",
                    !.kind = "escalate_alert",
                    !.alert_id = alert_id,
                    !.new_priority = new_priority,
                    !.level_before = alert_history[i].escalation_level,
                    !.request = request,
                    !.alert = alert,
                    !.providers_to_notify =
                        DetermineNotificationRecipients(
                            healthcare_providers, alert)]
        not_found == [NoCall EXCEPT
                        !.pc = "done",
                        !.kind = "escalate_alert",
                        !.alert_id = alert_id,
                        !.new_priority = new_priority,
                        !.status = "not_found"]
    IN  /\ SlotFree(c)
        /\ IF i = 0
           THEN /\ last' = [last EXCEPT !.op = "concurrent_calls",
                                        !.calls = Started(@, c, not_found)]
                /\ UNCHANGED alert_history
           ELSE /\ RoomToAppend
                /\ alert_history' = updated
                /\ last' = [last EXCEPT !.op = "concurrent_calls",
                                        !.calls = Started(@, c, call)]
        /\ UNCHANGED <<healthcare_providers, now>>

\* one round of the loop of lines 144-148
ConcurrentNotify(c) ==
    LET call == last.calls[c]
        n == Len(call.notification_results)
        provider_id == call.providers_to_notify[n + 1]
    IN  /\ call.pc = "dispatching"
        /\ n < Len(call.providers_to_notify)
        /\ last' = [last EXCEPT
                        !.calls[c].notification_results =
                            Append(@, SendNotificationToProvider(
                                        call.alert,
                                        healthcare_providers[provider_id],
                                        {}))]
        /\ UNCHANGED <<healthcare_providers, alert_history, now>>

\* lines 150-164, and for an escalation the return of lines 564-571
ConcurrentStore(c) ==
    LET call == last.calls[c]
    IN  /\ call.pc = "dispatching"
        /\ Len(call.notification_results) = Len(call.providers_to_notify)
        /\ alert_history' = Append(alert_history, call.alert)
        /\ last' = [last EXCEPT
                        !.calls[c].pc = "done",
                        !.calls[c].summary =
                            AlertSummary(call.alert,
                                         call.providers_to_notify,
                                         call.notification_results),
                        !.calls[c].status =
                            IF call.kind = "escalate_alert"
                            THEN "escalated" ELSE "alert_sent"]
        /\ UNCHANGED <<healthcare_providers, now>>

NextConcurrent ==
    \/ Tick
    \/ \E c \in Calls : ConcurrentSendAlert(c, TestRequest)
    \/ \E c \in Calls, alert_id \in AlertIdInputs(alert_history),
          new_priority \in NewPriorityInputs :
            ConcurrentEscalateAlert(c, alert_id, new_priority)
    \/ \E c \in Calls : ConcurrentNotify(c)
    \/ \E c \in Calls : ConcurrentStore(c)

SpecConcurrent == Init /\ [][NextConcurrent]_vars

(***************************************************************************)
(* Message rendering on its own: _create_alert, which calls                *)
(* _format_alert_message, is applied to patient messages of every length   *)
(* up to MessageCap + MaxOver.                                             *)
(***************************************************************************)
\* a text of n characters in which neighbours differ and dots occur
MessageOfLength(n) ==
    [i \in 1..n |-> IF i % 5 = 0 THEN "." ELSE IF i % 2 = 0 THEN "a" ELSE "b"]

LongMessages == {MessageOfLength(n) : n \in 0..(MessageCap + MaxOver)}

FormatRequests ==
    {[TestRequest EXCEPT !.patient_message = m, !.patient_context = c] :
        m \in LongMessages, c \in {ContextEmpty, ContextElena}}

CreateAlertFor(request) ==
    /\ last' = [LastInit EXCEPT
                    !.op = "create_alert",
                    !.request = request,
                    !.alert = CreateAlert(alert_history, now,
                                          request.patient_message,
                                          request.triage_assessment,
                                          request.patient_context,
                                          request.priority, now),
                    !.status = "returned",
                    !.pre_alert_history = alert_history,
                    !.pre_healthcare_providers = healthcare_providers]
    /\ UNCHANGED <<healthcare_providers, alert_history, now>>

NextFormat == \E request \in FormatRequests : CreateAlertFor(request)

SpecFormat == Init /\ [][NextFormat]_vars

(***************************************************************************)
(* Properties.                                                             *)
(***************************************************************************)
Range(seq) == {seq[i] : i \in 1..Len(seq)}

\* the facade was called and the LLM answered with (or was replaced by) an
\* assessment; last.request.triage_assessment is that assessment
FacadeAssessed ==
    /\ last.op = "assess_symptoms"
    /\ last.llm # "raise"

OnCall(providers, provider_id) == providers[provider_id].on_call

ProviderNames(results) == {results[i].provider_name : i \in 1..Len(results)}

\* C1: an assessment with escalate = false, whatever its risk level, handled
\* through the facade makes no send_alert call (no Alert, no
\* NotificationResult) and leaves alert_history and the provider directory
\* as they were before the call.
C1_NoEscalateNoEffect ==
    (FacadeAssessed /\ ~last.request.triage_assessment.escalate)
        => /\ alert_history = last.pre_alert_history
           /\ healthcare_providers = last.pre_healthcare_providers
           /\ last.summary = NoSummary
           /\ last.alert = NoAlert

C1_Witness ==
    /\ FacadeAssessed
    /\ ~last.request.triage_assessment.escalate
    /\ last.request.triage_assessment.risk_level = "CRITICAL"
    /\ Len(alert_history) = 1
    /\ alert_history = last.pre_alert_history

\* C2 (as stated): an assessment with escalate = true and a risk level in
\* {CRITICAL, MODERATE, LOW}, with any patient context the facade accepts
\* (its default None included), appends exactly one Alert to alert_history
\* and the notifier returns a summary with status alert_sent.
C2_EscalateAppendsOne ==
    (/\ FacadeAssessed
     /\ last.request.triage_assessment.escalate
     /\ last.request.triage_assessment.risk_level
            \in {"CRITICAL", "MODERATE", "LOW"})
        => /\ Len(alert_history) = Len(last.pre_alert_history) + 1
           /\ SubSeq(alert_history, 1, Len(last.pre_alert_history))
                = last.pre_alert_history
           /\ last.summary.status = "alert_sent"

\* C3: in every directory state reached through update_provider_status and
\* for every alert, _determine_notification_recipients returns a non-empty
\* list of provider ids that all exist in the directory.
C3_RecipientsNonEmpty ==
    /\ \A alert \in ResolveAlerts :
          LET recipients == DetermineNotificationRecipients(
                                healthcare_providers, alert)
          IN  /\ recipients # <<>>
              /\ Range(recipients) \subseteq DOMAIN healthcare_providers
    /\ last.op = "determine_notification_recipients"
          => /\ last.summary.providers_to_notify # <<>>
             /\ Range(last.summary.providers_to_notify)
                    \subseteq DOMAIN healthcare_providers

C3_Witness ==
    /\ last.op = "determine_notification_recipients"
    /\ ~OnCall(healthcare_providers, "nurse_david")
    /\ ~OnCall(healthcare_providers, "dr_smith")
    /\ last.alert.risk_level = "LOW"
    /\ last.alert.priority = "NORMAL"
    /\ Len(last.summary.providers_to_notify) = 2

\* C4: for a CRITICAL alert resolved while neither the primary nurse nor
\* the physician is on-call, the recipients are the whole directory, so
\* the physician dr_smith is among them.
C4_CriticalFallback ==
    (/\ last.op = "determine_notification_recipients"
     /\ last.alert.risk_level = "CRITICAL"
     /\ ~OnCall(healthcare_providers, "nurse_david")
     /\ ~OnCall(healthcare_providers, "dr_smith"))
        => /\ Range(last.summary.providers_to_notify)
                = DOMAIN healthcare_providers
           /\ "dr_smith" \in Range(last.summary.providers_to_notify)

C4_Witness ==
    /\ last.op = "determine_notification_recipients"
    /\ last.alert.risk_level = "CRITICAL"
    /\ ~OnCall(healthcare_providers, "nurse_david")
    /\ ~OnCall(healthcare_providers, "dr_smith")
    /\ "dr_smith" \in Range(last.summary.providers_to_notify)

PhysicianAvailable(providers, alert) ==
    /\ "dr_smith" \in Range(CandidateRecipients(alert))
    /\ OnCall(providers, "dr_smith")

CriticalNurseOnly ==
    /\ last.op \in {"assess_symptoms", "send_alert"}
    /\ last.summary.status = "alert_sent"
    /\ last.alert.risk_level = "CRITICAL"
    /\ last.alert.priority = "URGENT"
    /\ OnCall(last.pre_healthcare_providers, "nurse_david")
    /\ ~OnCall(last.pre_healthcare_providers, "dr_smith")

FacadeEscalated ==
    /\ FacadeAssessed
    /\ last.summary.status # "not_called"

\* C7 (as stated): the priority of the request built for an escalated
\* assessment is URGENT for CRITICAL, HIGH for MODERATE and NORMAL for
\* every other risk level.
C7_OtherRiskIsNormal ==
    FacadeEscalated
        => last.request.priority =
              CASE last.request.triage_assessment.risk_level = "CRITICAL"
                        -> "URGENT"
                [] last.request.triage_assessment.risk_level = "MODERATE"
                        -> "HIGH"
                [] OTHER -> "NORMAL"

\* C7 (amended): the mapping is total and the priority is URGENT for
\* CRITICAL, HIGH for MODERATE, NORMAL for LOW and HIGH for every
\* unrecognised risk level.
C7_UnknownRiskIsHigh ==
    FacadeEscalated
        => /\ last.request.priority \in Priorities
           /\ last.request.priority =
                CASE last.request.triage_assessment.risk_level = "CRITICAL"
                        -> "URGENT"
                  [] last.request.triage_assessment.risk_level = "MODERATE"
                        -> "HIGH"
                  [] last.request.triage_assessment.risk_level = "LOW"
                        -> "NORMAL"
                  [] OTHER -> "HIGH"

C7_Witness ==
    /\ FacadeEscalated
    /\ last.request.triage_assessment.risk_level = "SEVERE"
    /\ last.request.priority = "HIGH"
    /\ last.summary.status = "alert_sent"

\* the one NotificationResult of a dispatch
Dispatched == last.op = "send_notification_to_provider"
DispatchResult == last.summary.notification_results[1]

\* the channel tier of a priority, as a set
TierOf(priority) ==
    CASE priority = "URGENT" -> {"dashboard", "sms", "pager", "email"}
      [] priority = "HIGH" -> {"dashboard", "sms", "email"}
      [] OTHER -> {"dashboard", "email"}

\* the channels _send_notification_to_provider uses for the dispatched
\* provider at another priority when nothing fails
ChannelsAt(priority) ==
    Range(SendNotificationToProvider(
            [last.alert EXCEPT !.priority = priority],
            healthcare_providers[last.provider_id], {}).channels_used)

\* C8: when no channel fails the channels used are {dashboard, email} for
\* NORMAL, {dashboard, sms, email} for HIGH and {dashboard, sms, pager,
\* email} for URGENT; every priority value gets a channel list, and
\* channels(NORMAL) is a subset of channels(HIGH), a subset of
\* channels(URGENT).
C8_ChannelTiers ==
    (Dispatched /\ last.failing = {})
        => /\ DispatchResult.channels_used # <<>>
           /\ Len(DispatchResult.channels_used)
                = Cardinality(Range(DispatchResult.channels_used))
           /\ last.alert.priority = "NORMAL"
                => Range(DispatchResult.channels_used)
                        = {"dashboard", "email"}
           /\ last.alert.priority = "HIGH"
                => Range(DispatchResult.channels_used)
                        = {"dashboard", "sms", "email"}
           /\ last.alert.priority = "URGENT"
                => Range(DispatchResult.channels_used)
                        = {"dashboard", "sms", "pager", "email"}
           /\ ChannelsAt("NORMAL") \subseteq ChannelsAt("HIGH")
           /\ ChannelsAt("HIGH") \subseteq ChannelsAt("URGENT")

C8_Witness ==
    /\ Dispatched
    /\ last.failing = {}
    /\ last.alert.priority = "HIGH"
    /\ DispatchResult.channels_used = <<"dashboard", "sms", "email">>

\* C9 (as stated): the status of the NotificationResult is error if and
\* only if every channel sender of the priority's tier failed, and success
\* if at least one of them succeeded.
C9_ErrorIffAllFailed ==
    Dispatched
        => /\ DispatchResult.status = "error"
                <=> \A i \in 1..Len(DispatchResult.sender_returns) :
                        ~DispatchResult.sender_returns[i].ok
           /\ (\E i \in 1..Len(DispatchResult.sender_returns) :
                    DispatchResult.sender_returns[i].ok)
                => DispatchResult.status = "success"

\* C10 (as stated): every channel of the priority's tier is attempted
\* whatever failed before it, and the channel list recorded in the result
\* holds exactly the channels that succeeded.
C10_RecordsSucceededChannels ==
    Dispatched
        => /\ {DispatchResult.sender_returns[i].channel :
                    i \in 1..Len(DispatchResult.sender_returns)}
                = TierOf(last.alert.priority)
           /\ Range(DispatchResult.channels_used)
                = {DispatchResult.sender_returns[i].channel :
                    i \in {j \in 1..Len(DispatchResult.sender_returns) :
                            DispatchResult.sender_returns[j].ok}}

\* positions, ids and levels of stored alerts
AlertIds(history) == {history[i].alert_id : i \in 1..Len(history)}
LevelOf(history, alert_id) ==
    history[FindAlert(history, alert_id)].escalation_level
Escalated == last.op = "escalate_alert" /\ last.status = "escalated"

\* a stepwise send_alert call has returned
StepReturned == last.op = "send_alert" /\ ~Dispatching

\* C11: whatever channels fail for whichever provider, all of them for all
\* providers included, send_alert on a well-formed request returns a
\* summary with status alert_sent and the Alert it created is in
\* alert_history afterwards with response_required = true.
C11_DeliveryFailureStillSent ==
    (StepReturned /\ ~last.request.patient_context.is_none)
        => /\ last.status = "alert_sent"
           /\ last.summary.status = "alert_sent"
           /\ last.summary.providers_notified
                = Len(last.summary.providers_to_notify)
           /\ Len(alert_history) = Len(last.pre_alert_history) + 1
           /\ alert_history[Len(alert_history)] = last.alert
           /\ last.alert.alert_id = last.summary.alert_id
           /\ alert_history[Len(alert_history)].response_required

C11_Witness ==
    /\ StepReturned
    /\ last.status = "alert_sent"
    /\ Len(last.summary.notification_results) = 2
    /\ \A i \in 1..2 :
          /\ TotalFailure(last.summary.notification_results[i])
          /\ Len(last.summary.notification_results[i].sender_returns) = 4
    /\ alert_history[Len(alert_history)] = last.alert

\* C12: a successful escalate_alert raises the escalation_level of the
\* alert with that id by exactly 1, no operation lowers the level of any
\* stored alert, and two escalate_alert calls in a row on one id leave the
\* level exactly 2 above what it was before the first.
C12_EscalationMonotonic ==
    /\ Escalated
          => /\ LevelOf(alert_history, last.alert_id)
                  = LevelOf(last.pre_alert_history, last.alert_id) + 1
             /\ last.escalation_level
                  = LevelOf(alert_history, last.alert_id)
    /\ \A i \in 1..Len(last.pre_alert_history) :
          \E j \in 1..Len(alert_history) :
             /\ alert_history[j].alert_id
                  = last.pre_alert_history[i].alert_id
             /\ alert_history[j].escalation_level
                  >= last.pre_alert_history[i].escalation_level
    /\ (Escalated /\ last.chain.twice)
          => LevelOf(alert_history, last.alert_id)
                  = last.chain.level_before + 2

C12_Witness ==
    /\ Escalated
    /\ last.chain.twice
    /\ last.chain.level_before = 0
    /\ LevelOf(alert_history, last.alert_id) = 2
    /\ Len(alert_history) = 3

\* C13: escalate_alert with an id that is in no stored alert returns
\* not_found, leaves alert_history and the provider directory as they
\* were and dispatches nothing.
C13_UnknownIdNoMutation ==
    (/\ last.op = "escalate_alert"
     /\ last.alert_id \notin AlertIds(last.pre_alert_history))
        => /\ last.status = "not_found"
           /\ alert_history = last.pre_alert_history
           /\ healthcare_providers = last.pre_healthcare_providers
           /\ last.summary = NoSummary
           /\ last.alert = NoAlert

C13_Witness ==
    /\ last.op = "escalate_alert"
    /\ last.status = "not_found"
    /\ last.alert_id \notin AlertIds(alert_history)
    /\ Len(alert_history) = 2

\* C14: after a successful escalate_alert(id, P) the stored alert has
\* priority P and the dispatch it triggers works with P: the alert that is
\* dispatched has priority P, the physician is resolved when P is URGENT
\* and the physician on-call, and every NotificationResult uses the
\* channel tier of P.
C14_EscalationUsesNewPriority ==
    Escalated
        => /\ alert_history[FindAlert(alert_history, last.alert_id)].priority
                = last.new_priority
           /\ last.summary.status = "alert_sent"
           /\ last.summary.priority = last.new_priority
           /\ last.alert.priority = last.new_priority
           /\ last.summary.notification_results # <<>>
           /\ (last.new_priority = "URGENT"
                 /\ OnCall(healthcare_providers, "dr_smith"))
                => "dr_smith" \in Range(last.summary.providers_to_notify)
           /\ \A i \in 1..Len(last.summary.notification_results) :
                Range(last.summary.notification_results[i].channels_used)
                    = TierOf(last.new_priority)

C14_Witness ==
    /\ Escalated
    /\ last.old_priority = "HIGH"
    /\ last.new_priority = "URGENT"
    /\ last.alert.risk_level = "MODERATE"
    /\ "dr_smith" \in Range(last.summary.providers_to_notify)
    /\ "pager" \in Range(last.summary.notification_results[1].channels_used)

PriorityRank(priority) ==
    CASE priority = "URGENT" -> 3
      [] priority = "HIGH" -> 2
      [] OTHER -> 1

\* C15 (as stated): escalate_alert never leaves an alert with a priority
\* lower than it had before the call, in the order NORMAL < HIGH < URGENT.
C15_EscalationRaisesPriority ==
    Escalated
        => PriorityRank(
              alert_history[FindAlert(alert_history, last.alert_id)].priority)
           >= PriorityRank(
              last.pre_alert_history[
                FindAlert(last.pre_alert_history, last.alert_id)].priority)

\* the alerts of the history before a query that the query's filter keeps
MatchingAlerts ==
    {last.pre_alert_history[i] :
        i \in {j \in 1..Len(last.pre_alert_history) :
                \/ last.patient_name = Missing
                \/ last.pre_alert_history[j].patient_info.name
                        = last.patient_name}}

\* C16: get_alert_history(patient_name, limit) returns min(limit, n) of
\* the n stored alerts whose patient name equals patient_name (of all
\* alerts when no name is given), newest first by timestamp and none of
\* them older than an alert that was left out; it succeeds when fewer
\* than limit exist.
C16_HistoryNewestFirst ==
    last.op = "get_alert_history"
        => /\ last.status = "success"
           /\ last.total_alerts = Cardinality(MatchingAlerts)
           /\ Len(last.alerts)
                = Min(last.limit, Cardinality(MatchingAlerts))
           /\ Range(last.alerts) \subseteq MatchingAlerts
           /\ Cardinality(Range(last.alerts)) = Len(last.alerts)
           /\ \A i, j \in 1..Len(last.alerts) :
                i < j => last.alerts[i].timestamp >= last.alerts[j].timestamp
           /\ \A a \in MatchingAlerts \ Range(last.alerts) :
                \A i \in 1..Len(last.alerts) :
                    last.alerts[i].timestamp >= a.timestamp

C16_Witness ==
    /\ last.op = "get_alert_history"
    /\ last.patient_name = "Elena"
    /\ last.limit = 1
    /\ Cardinality(MatchingAlerts) = 2
    /\ Len(last.alerts) = 1
    /\ last.alerts[1].timestamp = 1
    /\ last.pre_alert_history[1].timestamp = 0

\* C17: alert_history is append-only: no step of send_alert,
\* escalate_alert, get_alert_history, update_provider_status or
\* check_provider_availability removes an alert id from it or shortens it.
C17_AppendOnly ==
    [][/\ Len(alert_history') >= Len(alert_history)
       /\ AlertIds(alert_history) \subseteq AlertIds(alert_history')]_vars

C17_Witness ==
    /\ last.op = "get_alert_history"
    /\ last.patient_name = Missing
    /\ last.limit = 0
    /\ Len(alert_history) = 2
    /\ alert_history # last.pre_alert_history
    /\ AlertIds(alert_history) = AlertIds(last.pre_alert_history)

\* C18: update_provider_status(p, v) on an id that is not in the directory
\* returns not_found and changes nothing; otherwise it sets the on_call
\* flag of p to v, leaves every other provider and the set of ids as they
\* were, and applying it again with the same arguments changes nothing.
C18_UpdateOnlyTarget ==
    last.op = "update_provider_status"
        => /\ DOMAIN healthcare_providers
                = DOMAIN last.pre_healthcare_providers
           /\ alert_history = last.pre_alert_history
           /\ last.provider_id \notin DOMAIN last.pre_healthcare_providers
                => /\ last.status = "not_found"
                   /\ healthcare_providers = last.pre_healthcare_providers
           /\ last.provider_id \in DOMAIN last.pre_healthcare_providers
                => /\ last.status = "updated"
                   /\ healthcare_providers[last.provider_id]
                        = [last.pre_healthcare_providers[last.provider_id]
                            EXCEPT !.on_call = last.on_call]
                   /\ \A q \in DOMAIN healthcare_providers
                            \ {last.provider_id} :
                        healthcare_providers[q]
                            = last.pre_healthcare_providers[q]
                   /\ UpdatedProviders(healthcare_providers,
                                       last.provider_id, last.on_call)
                        = healthcare_providers

C18_Witness ==
    /\ last.op = "update_provider_status"
    /\ last.status = "updated"
    /\ last.provider_id = "dr_smith"
    /\ last.on_call
    /\ ~OnCall(last.pre_healthcare_providers, "dr_smith")
    /\ OnCall(healthcare_providers, "dr_smith")
    /\ OnCall(healthcare_providers, "nurse_david")

\* C19 (as stated): a send_alert request whose assessment has no risk
\* level is rejected with an error and no Alert is created or appended.
C19_MissingRiskRejected ==
    (/\ last.op = "send_alert"
     /\ last.request.triage_assessment.risk_level = Missing)
        => /\ last.status = "error"
           /\ last.alert = NoAlert
           /\ alert_history = last.pre_alert_history

\* C20 (as stated): while send_alert is dispatching an alert, that is once
\* a channel sender has been invoked for it and until the call returns,
\* the alert is already in alert_history.
C20_StoredBeforeDispatch ==
    (Dispatching /\ last.cursor >= 1)
        => last.alert.alert_id \in AlertIds(alert_history)

\* C21: the summary send_alert returns holds one NotificationResult per
\* resolved recipient, in the order of resolution, providers_notified is
\* the number of resolved recipients whatever the channels did, and no
\* summary exists while a recipient is still to be dispatched to.
C21_OneResultPerRecipient ==
    /\ (StepReturned /\ last.status = "alert_sent")
          => /\ Len(last.summary.notification_results)
                  = Len(last.summary.providers_to_notify)
             /\ last.summary.providers_notified
                  = Len(last.summary.providers_to_notify)
             /\ last.cursor = Len(last.summary.providers_to_notify)
             /\ \A i \in 1..Len(last.summary.providers_to_notify) :
                  last.summary.notification_results[i].provider_name
                    = healthcare_providers[
                        last.summary.providers_to_notify[i]].name
    /\ Dispatching => last.summary.status = "not_called"

C21_Witness ==
    /\ StepReturned
    /\ last.status = "alert_sent"
    /\ last.summary.providers_to_notify = <<"nurse_david", "dr_smith">>
    /\ last.summary.providers_notified = 2
    /\ TotalFailure(last.summary.notification_results[1])
    /\ ~TotalFailure(last.summary.notification_results[2])

\* a stored alert without the two fields an escalation may write
CreationValues(alert) ==
    [alert EXCEPT !.priority = Missing, !.escalation_level = 0]

\* C24: every alert that was in alert_history before an operation is in
\* it afterwards with its alert id, timestamp, risk level, patient
\* snapshot, assessment and message unchanged; its priority or
\* escalation_level differ only when the operation was a successful
\* escalate_alert with that alert's id.
C24_StoredAlertsFrozen ==
    \A i \in 1..Len(last.pre_alert_history) :
        \E j \in 1..Len(alert_history) :
            /\ CreationValues(alert_history[j])
                 = CreationValues(last.pre_alert_history[i])
            /\ alert_history[j] # last.pre_alert_history[i]
                 => /\ Escalated
                    /\ last.alert_id = alert_history[j].alert_id

C24_Witness ==
    /\ Escalated
    /\ Len(last.pre_alert_history) = 2
    /\ Len(alert_history) = 3
    /\ last.old_priority = "URGENT"
    /\ last.new_priority = "NORMAL"
    /\ \E j \in 1..2 :
          /\ alert_history[j].alert_id # last.alert_id
          /\ alert_history[j].escalation_level = 0
          /\ alert_history[j] \in Range(last.pre_alert_history)

\* C25: the summary of a sent alert, and the summary of the dispatch an
\* escalation triggers, reports an expected response time of 15 minutes
\* for priority URGENT, 60 for HIGH and 240 for NORMAL.
C25_ExpectedResponseTime ==
    (\/ last.op = "send_alert" /\ last.status = "alert_sent"
     \/ Escalated)
        => /\ last.summary.priority = "URGENT"
                => last.summary.expected_response_time_minutes = 15
           /\ last.summary.priority = "HIGH"
                => last.summary.expected_response_time_minutes = 60
           /\ last.summary.priority = "NORMAL"
                => last.summary.expected_response_time_minutes = 240

C25_Witness ==
    /\ Escalated
    /\ last.old_priority = "HIGH"
    /\ last.new_priority = "NORMAL"
    /\ last.summary.priority = "NORMAL"
    /\ last.summary.expected_response_time_minutes = 240

\* the candidate set: the primary nurse, and the physician for CRITICAL
\* risk or URGENT priority
CandidateSet(alert) ==
    {"nurse_david"}
    \cup (IF alert.risk_level = "CRITICAL" \/ alert.priority = "URGENT"
          THEN {"dr_smith"} ELSE {})

\* C27: when at least one provider of the candidate set is on-call, every
\* resolved recipient is on-call.
C27_OnlyOnCallNotified ==
    (/\ last.op = "determine_notification_recipients"
     /\ \E p \in CandidateSet(last.alert) : OnCall(healthcare_providers, p))
        => \A i \in 1..Len(last.summary.providers_to_notify) :
              OnCall(healthcare_providers,
                     last.summary.providers_to_notify[i])

C27_Witness ==
    /\ last.op = "determine_notification_recipients"
    /\ last.alert.risk_level = "CRITICAL"
    /\ ~OnCall(healthcare_providers, "nurse_david")
    /\ OnCall(healthcare_providers, "dr_smith")
    /\ last.summary.providers_to_notify = <<"dr_smith">>

\* C28 (as stated): whenever assess_symptoms returns an assessment with
\* escalate = true, its fallback assessments included, send_alert has been
\* invoked for the patient message.
C28_EscalateOnError ==
    (last.op = "assess_symptoms" /\ last.assessment.escalate)
        => last.summary.status # "not_called"

\* C29: a successful escalate_alert makes alert_history one longer: the
\* original alert is updated where it stands and a new alert is appended
\* with an id no stored alert had, escalation_level 0, the new priority
\* and the original patient message prefixed with "ESCALATED: ".
C29_EscalationAppendsAlert ==
    Escalated
        => LET n == Len(last.pre_alert_history)
               i == FindAlert(last.pre_alert_history, last.alert_id)
               original == last.pre_alert_history[i]
               appended == alert_history[n + 1]
           IN  /\ Len(alert_history) = n + 1
               /\ appended = last.alert
               /\ appended.alert_id \notin AlertIds(last.pre_alert_history)
               /\ appended.escalation_level = 0
               /\ appended.priority = last.new_priority
               /\ appended.patient_info.original_message
                    = <<"E", "S", "C", "A", "L", "A", "T", "E", "D", ":", " ">>
                        \o original.patient_info.original_message
               /\ alert_history[i].alert_id = last.alert_id
               /\ alert_history[i].escalation_level
                    = original.escalation_level + 1

C29_Witness ==
    /\ Escalated
    /\ Len(last.pre_alert_history) = 1
    /\ Len(alert_history) = 2
    /\ alert_history[1].escalation_level = 1
    /\ alert_history[2].escalation_level = 0
    /\ Len(alert_history[2].patient_info.original_message) = 16

\* C30 (as stated): get_alert_history leaves the stored alert_history
\* sequence, contents and order, as it was before the call.
C30_HistoryQueryReadOnly ==
    last.op = "get_alert_history"
        => alert_history = last.pre_alert_history

\* C26: for a patient message of n characters the rendered alert message
\* holds its first min(n, 150) characters, followed by "..." exactly when
\* n > 150.
C26_MessageTruncation ==
    last.op = "create_alert"
        => LET message == last.request.patient_message
               n == Len(message)
               report == last.alert.alert_message.patient_report
               kept == IF n < 150 THEN n ELSE 150
           IN  /\ Len(report) >= kept
               /\ SubSeq(report, 1, kept) = SubSeq(message, 1, kept)
               /\ n > 150 => SubSeq(report, kept + 1, Len(report))
                                = <<".", ".", ".">>
               /\ n <= 150 => Len(report) = kept

C26_Witness ==
    /\ last.op = "create_alert"
    /\ Len(last.request.patient_message) = 151
    /\ Len(last.alert.alert_message.patient_report) = 153
    /\ last.alert.alert_message.patient_report[150] = "."
    /\ last.alert.alert_message.patient_report[151] = "."

ConcurrentEscalations(first, second) ==
    /\ first # second
    /\ last.calls[first].status = "escalated"
    /\ last.calls[second].status = "escalated"
    /\ last.calls[first].alert_id = last.calls[second].alert_id
    /\ first \in last.calls[second].overlaps
    /\ last.calls[first].racing = 1
    /\ last.calls[second].racing = 0

\* C23: when two escalate_alert calls on one alert id run concurrently,
\* the alert ends with an escalation_level exactly 2 above the one it had
\* before the first of them, and each call dispatched at the priority it
\* asked for: the alert it sent has that priority, the physician is among
\* its recipients when that priority is URGENT and the physician on-call,
\* and each of its results uses that priority's channel tier.
C23_NoLostEscalation ==
    \A first, second \in Calls :
        ConcurrentEscalations(first, second)
            => /\ LevelOf(alert_history, last.calls[first].alert_id)
                    = last.calls[first].level_before + 2
               /\ last.calls[second].level_before
                    = last.calls[first].level_before + 1
               /\ \A c \in {first, second} :
                    LET call == last.calls[c]
                    IN  /\ call.alert.priority = call.new_priority
                        /\ call.summary.priority = call.new_priority
                        /\ call.notification_results # <<>>
                        /\ (call.new_priority = "URGENT"
                              /\ OnCall(healthcare_providers, "dr_smith"))
                             => "dr_smith" \in Range(call.providers_to_notify)
                        /\ \A k \in 1..Len(call.notification_results) :
                             Range(call.notification_results[k].channels_used)
                                = TierOf(call.new_priority)

C23_Witness ==
    /\ ConcurrentEscalations("call_a", "call_b")
    /\ last.calls["call_a"].new_priority = "NORMAL"
    /\ last.calls["call_b"].new_priority = "URGENT"
    /\ last.calls["call_a"].level_before = 0
    /\ LevelOf(alert_history, last.calls["call_a"].alert_id) = 2
    /\ Len(alert_history) = 3
    /\ alert_history[2].priority = "URGENT"
    /\ alert_history[3].priority = "NORMAL"

====
